---- MODULE Spec2Model ----
(***************************************************************************)
(* Model of src/app.py: the Streamlit data-quality page.  One session      *)
(* holds the uploaded frame (df), the rule registry kept in                *)
(* st.session_state, the rule editor dialog, and the output of the last    *)
(* "Run Data Quality Checks" click (issues, total_rows, summary).          *)
(*                                                                         *)
(* Texts are sequences of one-character strings so that str(), len() and   *)
(* re.match() can be computed.  A percentage is a number of hundredths.    *)
(***************************************************************************)
EXTENDS Integers, Sequences, FiniteSets, TLC

VARIABLES df, rule_registry, editing, issues, total_rows, summary, outcome

vars == <<df, rule_registry, editing, issues, total_rows, summary, outcome>>

(***************************************************************************)
(* Bounds of the model.                                                    *)
(***************************************************************************)
MaxRows == 3
MaxLen == 3
MaxIssues == 4
MaxTotalRows == 4

(***************************************************************************)
(* Cells.  A CSV token is a text; the empty token is a missing value.      *)
(* read_csv infers one dtype per column, so a cell is NaN, an int64, a     *)
(* float64 or a str; t is the token the cell was read from.                *)
(***************************************************************************)
Digits == {"0", "1", "2", "3", "4", "5", "6", "7", "8", "9"}

TokEmpty == <<>>
TokNumber == <<"2", "0", "2", "0">>
TokWord == <<"a", "b", "c">>
TokDate == <<"2", "0", "2", "0", "-", "0", "1">>

Range(s) == {s[i] : i \in DOMAIN s}

IsNumericText(t) == t # <<>> /\ \A i \in DOMAIN t : t[i] \in Digits

NaN == [k |-> "nan", t |-> <<>>]

Column(raw, c) == [i \in DOMAIN raw.rows |-> raw.rows[i][c]]

InferDtype(tokens) ==
    IF Len(tokens) = 0 THEN "object"
    ELSE IF \A i \in DOMAIN tokens : tokens[i] = TokEmpty \/ IsNumericText(tokens[i])
         THEN IF \E i \in DOMAIN tokens : tokens[i] = TokEmpty THEN "float64" ELSE "int64"
         ELSE "object"

ReadCell(dtype, tok) ==
    IF tok = TokEmpty THEN NaN
    ELSE IF dtype = "int64" THEN [k |-> "int", t |-> tok]
    ELSE IF dtype = "float64" THEN [k |-> "float", t |-> tok]
    ELSE [k |-> "str", t |-> tok]

\* pd.read_csv: raw is [columns |-> sequence of names, rows |-> sequence of
\* functions from column name to token].
read_csv(raw) ==
    [columns |-> raw.columns,
     rows |-> [i \in DOMAIN raw.rows |->
                 [c \in Range(raw.columns) |->
                     ReadCell(InferDtype(Column(raw, c)), raw.rows[i][c])]]]

\* Python's None, for df when no file is uploaded and for a session key
\* that is not set.
NoneValue == [none |-> TRUE]

IsNone(x) == "none" \in DOMAIN x

len(d) == Len(d.rows)

isnull(v) == v.k = "nan"

\* str(value): "nan" for NaN, the digits for an int64, digits + ".0" for a
\* float64 holding a whole number, the text itself for a str.
str(v) ==
    IF v.k = "nan" THEN <<"n", "a", "n">>
    ELSE IF v.k = "float" THEN v.t \o <<".", "0">>
    ELSE v.t

\* float(value) raises for a str that is not a numeric literal.
float_raises(v) == v.k = "str" /\ ~IsNumericText(v.t)

IsDateText(t) ==
    /\ Len(t) \in {4, 7}
    /\ \A i \in 1..4 : t[i] \in Digits
    /\ Len(t) = 7 => (t[5] = "-" /\ t[6] \in Digits /\ t[7] \in Digits)

\* pd.to_datetime(value) raises for a str that is no date; NaN gives NaT and
\* a number is taken as an epoch offset.
to_datetime_raises(v) == v.k = "str" /\ ~IsDateText(v.t)

(***************************************************************************)
(* Rules.  max_length is <<>> for None and <<n>> for the number n.         *)
(***************************************************************************)
NoMaxLength == <<>>

NoCondition == [text |-> "", form |-> "empty", lhs |-> "", rhs |-> ""]
CondEq == [text |-> "a == b", form |-> "eq", lhs |-> "a", rhs |-> "b"]
CondBadSyntax == [text |-> "a ==", form |-> "malformed", lhs |-> "a", rhs |-> ""]

DefaultRule ==
    [type |-> "string", allow_null |-> FALSE, allow_duplicates |-> TRUE,
     regex |-> <<>>, max_length |-> NoMaxLength, custom_condition |-> NoCondition]

\* Initialize Rule Registry: one default rule per column, in column order.
InitRegistry(d) ==
    [keys |-> d.columns, rule |-> [c \in Range(d.columns) |-> DefaultRule]]

Keys(reg) == Range(reg.keys)

(***************************************************************************)
(* The validation pass (lines 164-236).  An issue is the dict the code     *)
(* appends; row is a history tag naming the loop iteration that appended   *)
(* it (0 for the single "Rule syntax error" issue).                        *)
(***************************************************************************)
Issue(col, msg, i) == [column |-> col, issue |-> msg, row |-> i]

RECURSIVE IssuesFor(_, _, _, _)
\* "for _ in frame.index: issues.append(...)": one issue per flagged row,
\* in row order.
IssuesFor(col, msg, flagged, n) ==
    IF n = 0 THEN <<>>
    ELSE IssuesFor(col, msg, flagged, n - 1)
         \o (IF n \in flagged THEN <<Issue(col, msg, n)>> ELSE <<>>)

\* Variant: keep="first", which leaves the first occurrence unflagged.
duplicated_keep_first(d, col) ==
    {i \in DOMAIN d.rows :
        \E j \in DOMAIN d.rows : j < i /\ d.rows[j][col] = d.rows[i][col]}

\* df.duplicated(col, keep=False): every row whose value occurs in another
\* row too; NaN counts as equal to NaN.
duplicated(d, col) ==
    {i \in DOMAIN d.rows :
        \E j \in DOMAIN d.rows : j # i /\ d.rows[j][col] = d.rows[i][col]}

DuplicateCheck(d, col, rules) ==
    IF ~rules.allow_duplicates
    THEN IssuesFor(col, "Duplicate value found", duplicated(d, col), len(d))
    ELSE <<>>

NullCheck(rules, value) == ~rules.allow_null /\ isnull(value)

TypeCheck(col, rules, value, i) ==
    (IF rules.type = "number" /\ float_raises(value)
     THEN <<Issue(col, "Expected numeric value", i)>> ELSE <<>>)
    \o
    (IF rules.type = "datetime" /\ to_datetime_raises(value)
     THEN <<Issue(col, "Invalid datetime format", i)>> ELSE <<>>)

\* re.compile fails on an unbalanced parenthesis.
re_error(pattern) == "(" \in Range(pattern)

\* re.match of a pattern of literal characters: a match at position 0.
re_match(pattern, s) ==
    Len(s) >= Len(pattern) /\ SubSeq(s, 1, Len(pattern)) = pattern

RegexCheck(col, rules, value, i) ==
    IF rules.regex # <<>> /\ ~re_match(rules.regex, str(value))
    THEN <<Issue(col, "Regex validation failed", i)>> ELSE <<>>

\* "if rules['max_length']": None and 0 are both falsy.
MaxLengthSet(rules) == rules.max_length # NoMaxLength /\ rules.max_length[1] # 0

\* Variant: a length equal to max_length is flagged too.
MaxLengthCheck_ge(col, rules, value, i) ==
    IF MaxLengthSet(rules) /\ Len(str(value)) >= rules.max_length[1]
    THEN <<Issue(col, "Max length exceeded", i)>> ELSE <<>>

MaxLengthCheck(col, rules, value, i) ==
    IF MaxLengthSet(rules) /\ Len(str(value)) > rules.max_length[1]
    THEN <<Issue(col, "Max length exceeded", i)>> ELSE <<>>

\* Variant: the null check without its "continue".
ValueChecks_no_continue(col, rules, value, i) ==
    IF rules.regex # <<>> /\ re_error(rules.regex)
    THEN [issues |-> (IF NullCheck(rules, value)
                      THEN <<Issue(col, "Null value not allowed", i)>> ELSE <<>>)
                     \o TypeCheck(col, rules, value, i),
          raised |-> TRUE]
    ELSE [issues |-> (IF NullCheck(rules, value)
                      THEN <<Issue(col, "Null value not allowed", i)>> ELSE <<>>)
                     \o TypeCheck(col, rules, value, i)
                     \o RegexCheck(col, rules, value, i)
                     \o MaxLengthCheck(col, rules, value, i),
          raised |-> FALSE]

\* One iteration of "for _, value in df[col].items()".  raised: re.match
\* raised re.error, which nothing catches.
ValueChecks(col, rules, value, i) ==
    IF NullCheck(rules, value)
    THEN [issues |-> <<Issue(col, "Null value not allowed", i)>>, raised |-> FALSE]
    ELSE IF rules.regex # <<>> /\ re_error(rules.regex)
    THEN [issues |-> TypeCheck(col, rules, value, i), raised |-> TRUE]
    ELSE [issues |-> TypeCheck(col, rules, value, i)
                     \o RegexCheck(col, rules, value, i)
                     \o MaxLengthCheck(col, rules, value, i),
          raised |-> FALSE]

RECURSIVE RowLoop(_, _, _, _)
\* Iterations i .. len(df) of the per-row loop.
RowLoop(d, col, rules, i) ==
    IF i > len(d) THEN [issues |-> <<>>, raised |-> FALSE]
    ELSE LET r == ValueChecks(col, rules, d.rows[i][col], i)
         IN  IF r.raised THEN r
             ELSE LET rest == RowLoop(d, col, rules, i + 1)
                  IN  [issues |-> r.issues \o rest.issues, raised |-> rest.raised]

\* df.query raises on a malformed expression and on an unknown column.
query_raises(d, cond) ==
    \/ cond.form = "malformed"
    \/ cond.lhs \notin Range(d.columns)
    \/ cond.rhs \notin Range(d.columns)

\* Elementwise ==: numbers compare by value, strs by text, NaN equals nothing.
CellEq(x, y) ==
    \/ x.k \in {"int", "float"} /\ y.k \in {"int", "float"} /\ x.t = y.t
    \/ x.k = "str" /\ y.k = "str" /\ x.t = y.t

\* df.query("not (lhs == rhs)").index
query_not(d, cond) ==
    {i \in DOMAIN d.rows : ~CellEq(d.rows[i][cond.lhs], d.rows[i][cond.rhs])}

\* Variant: the except branch reports the error once per row.
CrossColumnRule_error_per_row(d, col, rules) ==
    IF rules.custom_condition.text = "" THEN <<>>
    ELSE IF query_raises(d, rules.custom_condition)
    THEN IssuesFor(col, "Rule syntax error", DOMAIN d.rows, len(d))
    ELSE IssuesFor(col, "Custom rule failed: " \o rules.custom_condition.text,
                   query_not(d, rules.custom_condition), len(d))

CrossColumnRule(d, col, rules) ==
    IF rules.custom_condition.text = "" THEN <<>>
    ELSE IF query_raises(d, rules.custom_condition)
    THEN <<Issue(col, "Rule syntax error", 0)>>
    ELSE IssuesFor(col, "Custom rule failed: " \o rules.custom_condition.text,
                   query_not(d, rules.custom_condition), len(d))

\* The body of "for col, rules in rule_registry.items()".  df.duplicated(col)
\* and df[col] raise KeyError for a column the frame does not have.
CheckColumn(d, col, rules) ==
    IF col \notin Range(d.columns) THEN [issues |-> <<>>, error |-> "KeyError"]
    ELSE LET loop == RowLoop(d, col, rules, 1)
         IN  IF loop.raised
             THEN [issues |-> DuplicateCheck(d, col, rules) \o loop.issues,
                   error |-> "re.error"]
             ELSE [issues |-> DuplicateCheck(d, col, rules) \o loop.issues
                              \o CrossColumnRule(d, col, rules),
                   error |-> ""]

RECURSIVE CheckColumns(_, _, _)
\* Registry entries k .. end, in dict order.  evaluated counts the entries
\* whose checks all ran before an exception ended the run.
CheckColumns(d, reg, k) ==
    IF k > Len(reg.keys) THEN [issues |-> <<>>, error |-> "", evaluated |-> 0]
    ELSE LET c == CheckColumn(d, reg.keys[k], reg.rule[reg.keys[k]])
         IN  IF c.error # ""
             THEN [issues |-> c.issues, error |-> c.error, evaluated |-> 0]
             ELSE LET rest == CheckColumns(d, reg, k + 1)
                  IN  [issues |-> c.issues \o rest.issues, error |-> rest.error,
                       evaluated |-> 1 + rest.evaluated]

Validate(d, reg) == CheckColumns(d, reg, 1)

(***************************************************************************)
(* Aggregated Issue Summary (lines 244-263).                               *)
(***************************************************************************)
\* Python's string order on the names and messages that occur.
ColumnOrder == <<"a", "b">>

MessageOrder ==
    <<"Custom rule failed: a == b", "Duplicate value found",
      "Expected numeric value", "Invalid datetime format",
      "Max length exceeded", "Null value not allowed",
      "Regex validation failed", "Rule syntax error">>

Rank(order, x) == CHOOSE i \in DOMAIN order : order[i] = x

KeyLess(p, q) ==
    \/ Rank(ColumnOrder, p[1]) < Rank(ColumnOrder, q[1])
    \/ p[1] = q[1] /\ Rank(MessageOrder, p[2]) < Rank(MessageOrder, q[2])

RECURSIVE SortKeys(_)
SortKeys(S) ==
    IF S = {} THEN <<>>
    ELSE LET m == CHOOSE p \in S : \A q \in S \ {p} : KeyLess(p, q)
         IN  <<m>> \o SortKeys(S \ {m})

\* issues_df.groupby(["column", "issue"]).size().reset_index(...): one row
\* per key, keys in sorted order.
groupby_size(iss) ==
    LET keys == SortKeys({<<iss[i].column, iss[i].issue>> : i \in DOMAIN iss})
    IN  [g \in DOMAIN keys |->
            [column |-> keys[g][1], issue |-> keys[g][2],
             failure_count |->
                 Cardinality({i \in DOMAIN iss :
                     iss[i].column = keys[g][1] /\ iss[i].issue = keys[g][2]})]]

\* Variant: the percentage truncated instead of rounded.
failure_percentage_truncated(count, total) ==
    IF total = 0 THEN [inf |-> TRUE, h |-> 0]
    ELSE [inf |-> FALSE, h |-> (count * 10000) \div total]

\* round(count / total * 100, 2) in hundredths, ties to even; a float
\* division by zero of a positive count is inf.
failure_percentage(count, total) ==
    IF total = 0 THEN [inf |-> TRUE, h |-> 0]
    ELSE LET q == (count * 10000) \div total
             r == (count * 10000) % total
         IN  [inf |-> FALSE,
              h |-> IF 2 * r < total THEN q
                    ELSE IF 2 * r > total THEN q + 1
                    ELSE IF q % 2 = 0 THEN q ELSE q + 1]

with_percentage(groups, total) ==
    [g \in DOMAIN groups |->
        [column |-> groups[g].column, issue |-> groups[g].issue,
         failure_count |-> groups[g].failure_count,
         failure_percentage |-> failure_percentage(groups[g].failure_count, total)]]

PctGeq(x, y) == x.inf \/ (~y.inf /\ x.h >= y.h)

Orderings(n) ==
    {p \in [1..n -> 1..n] : \A i, j \in 1..n : i # j => p[i] # p[j]}

Descending(rows) ==
    \A i, j \in DOMAIN rows :
        i < j => PctGeq(rows[i].failure_percentage, rows[j].failure_percentage)

\* Variant: the default ascending=True.
sort_values_ascending(rows) ==
    {s \in {[i \in DOMAIN rows |-> rows[p[i]]] : p \in Orderings(Len(rows))} :
        \A i, j \in DOMAIN s :
            i < j => PctGeq(s[j].failure_percentage, s[i].failure_percentage)}

\* summary.sort_values("failure_percentage", ascending=False) with the
\* default kind="quicksort", which is not stable: every descending
\* arrangement of the rows is a possible result.
sort_values(rows) ==
    {s \in {[i \in DOMAIN rows |-> rows[p[i]]] : p \in Orderings(Len(rows))} :
        Descending(s)}

Summaries(iss, total) == sort_values(with_percentage(groupby_size(iss), total))

(***************************************************************************)
(* The session.                                                            *)
(***************************************************************************)
Idle == [status |-> "none", error |-> "", evaluated |-> 0]

\* The output of a run is shown only by the script run of the click; any
\* other interaction reruns the script without it.
ClearOutput ==
    /\ issues' = <<>>
    /\ total_rows' = 0
    /\ summary' = <<>>
    /\ outcome' = Idle

\* Lines 135-154 raise KeyError at the first column of df that the
\* registry lacks; the widgets after it are not reached.
FieldTableReaches(d, reg, k) ==
    \A j \in 1..k : d.columns[j] \in Keys(reg)

RunButtonShown ==
    /\ ~IsNone(df)
    /\ ~IsNone(rule_registry)
    /\ FieldTableReaches(df, rule_registry, Len(df.columns))

\* Sidebar upload of a file (lines 13-19) and the script run it triggers,
\* which creates the registry only when the session has none (lines 60-71).
Upload(raw) ==
    /\ editing = "none"
    /\ df' = read_csv(raw)
    /\ rule_registry' =
           IF IsNone(rule_registry) THEN InitRegistry(read_csv(raw))
           ELSE rule_registry
    /\ UNCHANGED editing
    /\ ClearOutput

\* The uploaded file is removed: df is None and tab 2 stops at line 57.
RemoveFile ==
    /\ editing = "none"
    /\ ~IsNone(df)
    /\ df' = NoneValue
    /\ UNCHANGED <<rule_registry, editing>>
    /\ ClearOutput

\* "Edit/View" of a column (lines 153-154, 77-82).
open_rule_editor(col) ==
    /\ editing = "none"
    /\ ~IsNone(df)
    /\ ~IsNone(rule_registry)
    /\ \E k \in DOMAIN df.columns :
          df.columns[k] = col /\ FieldTableReaches(df, rule_registry, k)
    /\ editing' = col
    /\ UNCHANGED <<df, rule_registry>>
    /\ ClearOutput

\* Variant: the widget's number stored as it is.
SavedMaxLength_raw(max_length) == <<max_length>>

\* "max_length": None if max_length == 0 else max_length (line 117).
SavedMaxLength(max_length) ==
    IF max_length = 0 THEN NoMaxLength ELSE <<max_length>>

\* "Save" in the dialog (lines 111-121): the entry is replaced by the
\* widgets' values.
Save(rule_type, allow_null, allow_duplicates, regex, max_length, custom_condition) ==
    /\ editing # "none"
    /\ rule_registry' =
           [rule_registry EXCEPT !.rule[editing] =
               [type |-> rule_type, allow_null |-> allow_null,
                allow_duplicates |-> allow_duplicates, regex |-> regex,
                max_length |-> SavedMaxLength(max_length),
                custom_condition |-> custom_condition]]
    /\ editing' = "none"
    /\ UNCHANGED <<df, issues, total_rows, summary, outcome>>

\* "Close" in the dialog (lines 124-125).
Close ==
    /\ editing # "none"
    /\ editing' = "none"
    /\ UNCHANGED <<df, rule_registry, issues, total_rows, summary, outcome>>

\* Lines 244-266: "No Issues Found", or the sorted summary.
IssueSummary(iss, total, evaluated) ==
    IF iss = <<>>
    THEN /\ summary' = <<>>
         /\ outcome' = [status |-> "no_issues", error |-> "", evaluated |-> evaluated]
    ELSE /\ summary' \in Summaries(iss, total)
         /\ outcome' = [status |-> "summary", error |-> "", evaluated |-> evaluated]

\* "Run Data Quality Checks" (lines 162-266).
RunDataQualityChecks ==
    /\ editing = "none"
    /\ RunButtonShown
    /\ LET v == Validate(df, rule_registry)
       IN  /\ issues' = v.issues
           /\ total_rows' = len(df)
           /\ IF v.error # ""
              THEN /\ summary' = <<>>
                   /\ outcome' = [status |-> "exception", error |-> v.error,
                                  evaluated |-> v.evaluated]
              ELSE IssueSummary(v.issues, len(df), v.evaluated)
    /\ UNCHANGED <<df, rule_registry, editing>>

(***************************************************************************)
(* Inputs.                                                                 *)
(***************************************************************************)
RECURSIVE SeqsUpTo(_, _)
SeqsUpTo(S, n) ==
    IF n = 0 THEN {<<>>}
    ELSE LET shorter == SeqsUpTo(S, n - 1)
         IN  shorter \cup {Append(q, x) : q \in shorter, x \in S}

\* The CSV files with the given header, at most n data rows and the given
\* tokens in the cells.
Tables(columns, tokens, n) ==
    {[columns |-> columns, rows |-> rows] :
        rows \in SeqsUpTo([Range(columns) -> tokens], n)}

ColumnLists == {<<"a">>, <<"a", "b">>}

SessionTables ==
    UNION {Tables(columns, {TokEmpty, TokWord}, 1) : columns \in ColumnLists}

SessionTypes == {"string"}
SessionRegexes == {<<>>, <<"(">>}
SessionConditions == {NoCondition, CondBadSyntax}

Types == {"string", "number", "datetime"}
Regexes == {<<>>, <<"a", "b">>, <<"b", "c">>, <<"(">>}
MaxLengths == {NoMaxLength} \cup {<<n>> : n \in 1..MaxLen}

\* Rules the editor can store that exercise the per-row checks.
RowRules ==
    [type : Types, allow_null : BOOLEAN, allow_duplicates : BOOLEAN,
     regex : Regexes, max_length : MaxLengths, custom_condition : {NoCondition}]

RowTables == Tables(<<"a">>, {TokEmpty, TokNumber, TokWord, TokDate}, MaxRows)

\* Rules the editor can store that exercise the per-column checks.
ColumnRules ==
    [type : {"string"}, allow_null : BOOLEAN, allow_duplicates : BOOLEAN,
     regex : {<<>>}, max_length : {NoMaxLength},
     custom_condition : {NoCondition, CondEq, CondBadSyntax}]

OtherColumnRules ==
    {DefaultRule, [DefaultRule EXCEPT !.allow_duplicates = FALSE]}

ColumnTables ==
    UNION {Tables(columns, {TokEmpty, TokNumber, TokWord}, MaxRows) :
              columns \in ColumnLists}

IssuePool ==
    {Issue(c, m, 0) : c \in {"a", "b"},
                      m \in {"Duplicate value found", "Null value not allowed"}}

(***************************************************************************)
(* Spec: the session.                                                      *)
(***************************************************************************)
Init ==
    /\ df = NoneValue
    /\ rule_registry = NoneValue
    /\ editing = "none"
    /\ issues = <<>>
    /\ total_rows = 0
    /\ summary = <<>>
    /\ outcome = Idle

Next ==
    \/ \E raw \in SessionTables : Upload(raw)
    \/ RemoveFile
    \/ \E col \in {"a", "b"} : open_rule_editor(col)
    \/ \E rule_type \in SessionTypes, allow_null \in BOOLEAN,
          regex \in SessionRegexes, max_length \in 0..MaxLen,
          custom_condition \in SessionConditions :
            Save(rule_type, allow_null, TRUE, regex, max_length, custom_condition)
    \/ Close
    \/ RunDataQualityChecks

Spec == Init /\ [][Next]_vars

(***************************************************************************)
(* SpecRowChecks, SpecColumnChecks: the validation pass as a function of   *)
(* a frame and a registry the editor can produce for it.                   *)
(***************************************************************************)
ApplyValidate ==
    /\ outcome.status = "none"
    /\ LET v == Validate(df, rule_registry)
       IN  /\ issues' = v.issues
           /\ total_rows' = len(df)
           /\ outcome' = [status |-> IF v.error = "" THEN "validated" ELSE "exception",
                          error |-> v.error, evaluated |-> v.evaluated]
    /\ UNCHANGED <<df, rule_registry, editing, summary>>

InitRowChecks ==
    /\ \E raw \in RowTables, rule \in RowRules :
          /\ df = read_csv(raw)
          /\ rule_registry = [keys |-> raw.columns,
                              rule |-> [c \in Range(raw.columns) |-> rule]]
    /\ editing = "none"
    /\ issues = <<>>
    /\ total_rows = 0
    /\ summary = <<>>
    /\ outcome = Idle

SpecRowChecks == InitRowChecks /\ [][ApplyValidate]_vars

InitColumnChecks ==
    /\ \E raw \in ColumnTables, rule \in ColumnRules, other \in OtherColumnRules :
          /\ df = read_csv(raw)
          /\ rule_registry =
                 [keys |-> raw.columns,
                  rule |-> [c \in Range(raw.columns) |->
                              IF c = "a" THEN rule ELSE other]]
    /\ editing = "none"
    /\ issues = <<>>
    /\ total_rows = 0
    /\ summary = <<>>
    /\ outcome = Idle

SpecColumnChecks == InitColumnChecks /\ [][ApplyValidate]_vars

(***************************************************************************)
(* SpecSummary: the aggregation as a function of an issue list and a row   *)
(* count.                                                                  *)
(***************************************************************************)
ApplySummary ==
    /\ outcome.status = "none"
    /\ IssueSummary(issues, total_rows, 0)
    /\ UNCHANGED <<df, rule_registry, editing, issues, total_rows>>

InitSummary ==
    /\ df = NoneValue
    /\ rule_registry = NoneValue
    /\ editing = "none"
    /\ issues \in SeqsUpTo(IssuePool, MaxIssues)
    /\ total_rows \in 0..MaxTotalRows \cup {32}
    /\ summary = <<>>
    /\ outcome = Idle

SpecSummary == InitSummary /\ [][ApplySummary]_vars

(***************************************************************************)
(* Properties.                                                             *)
(***************************************************************************)
Rule(col) == rule_registry.rule[col]

Value(col, i) == df.rows[i][col]

\* Number of issues the run appended for this column, message and row.
NumIssues(col, msg, i) ==
    Cardinality({n \in DOMAIN issues : issues[n] = Issue(col, msg, i)})

NumColumnIssues(col, msg) ==
    Cardinality({n \in DOMAIN issues :
        issues[n].column = col /\ issues[n].issue = msg})

OccursMoreThanOnce(col, i) ==
    Cardinality({j \in DOMAIN df.rows : Value(col, j) = Value(col, i)}) > 1

\* C1: in a completed validation pass, a column with allow_duplicates=False
\* gets one "Duplicate value found" issue for each row whose value occurs
\* in more than one row (first occurrence included; a missing value counts
\* as a value) and for no other row; a column with allow_duplicates=True or
\* with distinct values gets none.
C1_DuplicateIssues ==
    outcome.status = "validated" =>
        \A col \in Keys(rule_registry) :
            /\ \A i \in DOMAIN df.rows :
                  NumIssues(col, "Duplicate value found", i) =
                      IF ~Rule(col).allow_duplicates /\ OccursMoreThanOnce(col, i)
                      THEN 1 ELSE 0
            /\ NumColumnIssues(col, "Duplicate value found") =
                  IF Rule(col).allow_duplicates THEN 0
                  ELSE Cardinality({i \in DOMAIN df.rows : OccursMoreThanOnce(col, i)})

C1_Witness ==
    /\ outcome.status = "validated"
    /\ \E col \in Keys(rule_registry) :
          /\ ~Rule(col).allow_duplicates
          /\ \E i, j, k \in DOMAIN df.rows :
                /\ i < j
                /\ Value(col, i) = Value(col, j)
                /\ ~OccursMoreThanOnce(col, k)
                /\ NumIssues(col, "Duplicate value found", i) = 1
                /\ NumIssues(col, "Duplicate value found", j) = 1
                /\ NumIssues(col, "Duplicate value found", k) = 0

PerRowMessagesAfterNull ==
    {"Expected numeric value", "Invalid datetime format",
     "Regex validation failed", "Max length exceeded"}

\* C2: in a completed validation pass, a row whose value is missing in a
\* column with allow_null=False gets exactly one "Null value not allowed"
\* issue for that column and none of the type, regex and length issues.
C2_NullShortCircuits ==
    outcome.status = "validated" =>
        \A col \in Keys(rule_registry) : \A i \in DOMAIN df.rows :
            (Value(col, i).k = "nan" /\ ~Rule(col).allow_null) =>
                /\ NumIssues(col, "Null value not allowed", i) = 1
                /\ \A m \in PerRowMessagesAfterNull : NumIssues(col, m, i) = 0

C2_Witness ==
    /\ outcome.status = "validated"
    /\ \E col \in Keys(rule_registry) : \E i \in DOMAIN df.rows :
          /\ Value(col, i).k = "nan"
          /\ ~Rule(col).allow_null
          /\ Rule(col).regex = <<"a", "b">>
          /\ Rule(col).max_length = <<1>>
          /\ NumIssues(col, "Null value not allowed", i) = 1

ConditionFails(cond) ==
    \/ cond.form = "malformed"
    \/ {cond.lhs, cond.rhs} \ Range(df.columns) # {}

RowSatisfies(cond, i) == CellEq(Value(cond.lhs, i), Value(cond.rhs, i))

CustomMessage(cond) == "Custom rule failed: " \o cond.text

WithoutCondition(reg, col) ==
    [reg EXCEPT !.rule[col].custom_condition = NoCondition]

\* C3: in a completed validation pass, a column with a custom condition
\* gets either one "Custom rule failed: ..." issue per row on which the
\* predicate is false and no "Rule syntax error", or, when the expression
\* cannot be evaluated, exactly one "Rule syntax error" and no per-row
\* custom issue; in the second case all the other issues of the run are the
\* ones the run produces with that condition empty.
C3_CrossColumnRule ==
    outcome.status = "validated" =>
        \A col \in Keys(rule_registry) :
            LET cond == Rule(col).custom_condition
            IN  cond.text # "" =>
                  IF ConditionFails(cond)
                  THEN /\ NumColumnIssues(col, "Rule syntax error") = 1
                       /\ NumColumnIssues(col, CustomMessage(cond)) = 0
                       /\ SelectSeq(issues,
                              LAMBDA x : ~(x.column = col /\ x.issue = "Rule syntax error"))
                            = Validate(df, WithoutCondition(rule_registry, col)).issues
                  ELSE /\ NumColumnIssues(col, "Rule syntax error") = 0
                       /\ \A i \in DOMAIN df.rows :
                             NumIssues(col, CustomMessage(cond), i) =
                                 IF RowSatisfies(cond, i) THEN 0 ELSE 1
                       /\ NumColumnIssues(col, CustomMessage(cond)) =
                             Cardinality({i \in DOMAIN df.rows : ~RowSatisfies(cond, i)})

C3_Witness ==
    /\ outcome.status = "validated"
    /\ df.columns = <<"a", "b">>
    /\ len(df) >= 2
    /\ Rule("a").custom_condition = CondBadSyntax
    /\ NumColumnIssues("a", "Rule syntax error") = 1
    /\ NumColumnIssues("a", "Null value not allowed") >= 1
    /\ NumColumnIssues("b", "Duplicate value found") >= 2

StartsWith(s, prefix) == \E k \in 0..Len(s) : SubSeq(s, 1, k) = prefix

\* C10: in a completed validation pass, for every value the null check
\* does not flag, each of the type, regex and length issues is emitted or
\* not by its own condition alone: the type issue iff the type is number
\* (datetime) and the value does not parse as one, the regex issue iff the
\* regex is non-empty and the stringified value has no match at position
\* 0, the length issue iff max_length is set and the stringified length is
\* strictly greater.
C10_IndependentChecks ==
    outcome.status = "validated" =>
        \A col \in Keys(rule_registry) : \A i \in DOMAIN df.rows :
            LET v == Value(col, i)
                r == Rule(col)
            IN  ~(v.k = "nan" /\ ~r.allow_null) =>
                  /\ NumIssues(col, "Null value not allowed", i) = 0
                  /\ NumIssues(col, "Expected numeric value", i) =
                        IF r.type = "number" /\ float_raises(v) THEN 1 ELSE 0
                  /\ NumIssues(col, "Invalid datetime format", i) =
                        IF r.type = "datetime" /\ to_datetime_raises(v) THEN 1 ELSE 0
                  /\ NumIssues(col, "Regex validation failed", i) =
                        IF r.regex # <<>> /\ ~StartsWith(str(v), r.regex) THEN 1 ELSE 0
                  /\ NumIssues(col, "Max length exceeded", i) =
                        IF r.max_length # NoMaxLength /\ Len(str(v)) > r.max_length[1]
                        THEN 1 ELSE 0

C10_Witness ==
    /\ outcome.status = "validated"
    /\ \E i \in DOMAIN df.rows :
          /\ Value("a", i) = [k |-> "str", t |-> TokWord]
          /\ Rule("a").type = "number"
          /\ Rule("a").regex = <<"b", "c">>
          /\ Rule("a").max_length = <<3>>
          /\ NumIssues("a", "Expected numeric value", i) = 1
          /\ NumIssues("a", "Regex validation failed", i) = 1
          /\ NumIssues("a", "Max length exceeded", i) = 0

IssueKeys == {<<issues[n].column, issues[n].issue>> : n \in DOMAIN issues}

RECURSIVE SumCounts(_, _)
SumCounts(rows, n) ==
    IF n = 0 THEN 0 ELSE SumCounts(rows, n - 1) + rows[n].failure_count

Abs(x) == IF x < 0 THEN -x ELSE x

ExampleIssues ==
    <<Issue("a", "Null value not allowed", 0), Issue("a", "Null value not allowed", 0),
      Issue("b", "Duplicate value found", 0)>>

\* C4: for an issue list and total_rows >= 1 the summary has exactly one
\* row per (column, issue) pair of the list, with failure_count the number
\* of issues of the pair (>= 1, summing to the length of the list) and
\* failure_percentage the nearest hundredth to failure_count / total_rows
\* * 100; two issues of one pair and one of another with total_rows = 4
\* give 50.00 and 25.00.
C4_SummaryRows ==
    (outcome.status = "summary" /\ total_rows >= 1) =>
        /\ Len(summary) = Cardinality(IssueKeys)
        /\ {<<summary[g].column, summary[g].issue>> : g \in DOMAIN summary} = IssueKeys
        /\ \A g \in DOMAIN summary :
              /\ summary[g].failure_count =
                    NumColumnIssues(summary[g].column, summary[g].issue)
              /\ summary[g].failure_count >= 1
              /\ ~summary[g].failure_percentage.inf
              /\ 2 * Abs(summary[g].failure_percentage.h * total_rows
                         - 10000 * summary[g].failure_count) <= total_rows
        /\ SumCounts(summary, Len(summary)) = Len(issues)
        /\ (issues = ExampleIssues /\ total_rows = 4) =>
              summary =
                <<[column |-> "a", issue |-> "Null value not allowed",
                   failure_count |-> 2,
                   failure_percentage |-> [inf |-> FALSE, h |-> 5000]],
                  [column |-> "b", issue |-> "Duplicate value found",
                   failure_count |-> 1,
                   failure_percentage |-> [inf |-> FALSE, h |-> 2500]]>>

C4_Witness ==
    /\ outcome.status = "summary"
    /\ issues = ExampleIssues
    /\ total_rows = 4
    /\ Len(summary) = 2
    /\ summary[1].failure_percentage.h = 5000

GroupIndex(row) ==
    LET groups == groupby_size(issues)
    IN  CHOOSE g \in DOMAIN groups :
            groups[g].column = row.column /\ groups[g].issue = row.issue

\* C5 as stated: the summary rows are in descending order of
\* failure_percentage and rows of equal percentage keep the order in which
\* their groups were formed.
C5_StableOnTies ==
    outcome.status = "summary" =>
        /\ Descending(summary)
        /\ \A i, j \in DOMAIN summary :
              (i < j /\ summary[i].failure_percentage = summary[j].failure_percentage)
                  => GroupIndex(summary[i]) < GroupIndex(summary[j])

\* C5 as amended: the summary rows are the grouped rows, each once, in
\* descending order of failure_percentage; the order among rows of equal
\* percentage is not determined.
C5_Descending ==
    outcome.status = "summary" =>
        /\ Descending(summary)
        /\ Len(summary) = Cardinality(IssueKeys)
        /\ \A i, j \in DOMAIN summary :
              i # j => <<summary[i].column, summary[i].issue>>
                         # <<summary[j].column, summary[j].issue>>

C5_Witness ==
    /\ outcome.status = "summary"
    /\ Len(summary) = 3
    /\ summary[1].failure_percentage.h > summary[2].failure_percentage.h
    /\ summary[2].failure_percentage = summary[3].failure_percentage
    /\ GroupIndex(summary[2]) > GroupIndex(summary[3])

\* C6 as stated: a run that completes on an empty registry or on a frame
\* of zero rows ends with no issue and no summary row, whatever the rules
\* are, and no percentage is computed by a division by zero.
C6_EmptyInputs ==
    (/\ outcome.status \in {"summary", "no_issues"}
     /\ (rule_registry.keys = <<>> \/ len(df) = 0)) =>
        /\ issues = <<>>
        /\ summary = <<>>
        /\ outcome.status = "no_issues"

\* C7 as stated: a run on a registry that has the dataset's columns ends
\* with a summary (or "no issues"), or with an unknown-column error raised
\* before any column was evaluated; no rule aborts it once evaluation has
\* started.
C7_NoAbortAfterStart ==
    (outcome.status = "exception" /\ rule_registry.keys = df.columns) =>
        /\ outcome.error = "KeyError"
        /\ outcome.evaluated = 0
        /\ issues = <<>>

\* C8 as stated: whenever a dataset is loaded the registry has exactly one
\* entry per column of that dataset.
C8_RegistryMatchesDataset ==
    ~IsNone(df) =>
        /\ ~IsNone(rule_registry)
        /\ rule_registry.keys = df.columns

\* C9: no rule of the registry has max_length zero (a saved 0 is stored as
\* None), and a run emits no "Max length exceeded" issue for a column
\* whose rule has no max_length.
C9_NoZeroMaxLength ==
    ~IsNone(rule_registry) =>
        \A col \in Keys(rule_registry) :
            /\ Rule(col).max_length # <<0>>
            /\ Rule(col).max_length = NoMaxLength =>
                  NumColumnIssues(col, "Max length exceeded") = 0

C9_Witness ==
    /\ outcome.status = "summary"
    /\ \E col \in Keys(rule_registry) :
          /\ Rule(col) # DefaultRule
          /\ Rule(col).allow_null
          /\ Rule(col).max_length = NoMaxLength
          /\ \E i \in DOMAIN df.rows : Len(str(Value(col, i))) > 0
    /\ \E col \in Keys(rule_registry) :
          NumColumnIssues(col, "Max length exceeded") > 0

====
